---- MODULE Spec2Model ----
(***************************************************************************)
(* Disaster-relief routing (src/main.py, src/app.py): priority scoring,    *)
(* agent-type advice, two-phase greedy assignment and route computation.   *)
(*                                                                         *)
(* Units.  Coordinates are points of one meridian, given as whole metres   *)
(* north of a reference point, so the great-circle distance of two points  *)
(* is the absolute difference of their coordinates.  Speeds are in tenths  *)
(* of a metre per second (2.5 m/s = 25), fire intensities in tenths        *)
(* (0.5 = 5), durations in ticks of 1/60 s, and scores are exact fractions *)
(* [num, den], so that every division of the code is exact here.           *)
(***************************************************************************)
EXTENDS Integers, Sequences, FiniteSets, TLC

VARIABLES
    pc,                     \* position of the running program / harness
    MAPBOX_ACCESS_TOKEN,    \* TRUE iff the environment sets the token
    GEMINI_API_KEY,         \* TRUE iff the environment sets the key
    GEMINI_AVAILABLE,       \* TRUE iff google.generativeai could be imported
    center_coords,          \* main(): centre of the planning cycle
    buildings,              \* list of site records
    agents,                 \* list of agent records (pool insertion order)
    optimal_agent_mapping,  \* severity -> agent type, or None
    fire_count,             \* generate_fires' return value
    assigned_count,         \* assign_by_priority's return value
    claim_log,              \* ids of the sites claimed, in the order claimed
    route_idx,              \* compute_routes: index of the next agent
    directions_log,         \* per agent: outcome of its directions call
    severity,               \* advisor harness: the severity asked about
    reply,                  \* advisor harness: what the service does
    recommended,            \* advisor harness: the returned agent type
    mapping_builds,         \* main(): calls of get_optimal_agent_mapping so far
    advisor_log             \* main(): the calls of the advisor function so far

vars == <<pc, MAPBOX_ACCESS_TOKEN, GEMINI_API_KEY, GEMINI_AVAILABLE,
          center_coords, buildings, agents, optimal_agent_mapping, fire_count,
          assigned_count, claim_log, route_idx, directions_log,
          severity, reply, recommended, mapping_builds, advisor_log>>

-----------------------------------------------------------------------------
(* Bounds of the model *)

MaxSites == 2       \* longest site list
MaxPerKind == 1     \* most agents of one type in a pool

Positions == {1, 2}                      \* site coordinates (metres)
AgentTypes == {"truck", "drone", "volunteer"}
BuildingTypes == {"residential", "commercial", "mixed", "unknown"}
Severities == <<"low", "medium", "high", "critical">>
SeveritySet == {Severities[i] : i \in 1..Len(Severities)}

NoBuilding == 0
NoScore == [num |-> 0, den |-> 0]        \* key 'priority_score' absent
NoRoute == [geometry |-> <<>>, distance |-> 0, duration |-> 0, type |-> "None"]
NoSpeed == 0                             \* key 'speed' absent
None == [present |-> FALSE, table |-> <<>>]

\* Units of time per second: the least number that makes distance / speed
\* whole for the speeds 1, 2.5, 12 and 15 m/s.
TicksPerSecond == 3 * 4 * 5

-----------------------------------------------------------------------------
(* Helper functions *)

Abs(x) == IF x < 0 THEN -x ELSE x

haversine_distance(a, b) == Abs(a - b)

\* distance / speed, the speed in tenths of m/s, the result in ticks
Div(distance, speed10) == (distance * 10 * TicksPerSecond) \div speed10

AGENT_SPEEDS == [truck |-> 120, drone |-> 150, volunteer |-> 25]

FIRE_SEVERITY == [none |-> 0, low |-> 1, medium |-> 3, high |-> 5, critical |-> 10]

\* FIRE_SEVERITY.get(severity, 1)
FireMultiplier(sev) ==
    IF sev \in DOMAIN FIRE_SEVERITY THEN FIRE_SEVERITY[sev] ELSE 1

\* BUILDING_TYPE_WEIGHT.get(type, 1.0), in tenths
BUILDING_TYPE_WEIGHT == [residential |-> 10, commercial |-> 15, mixed |-> 12]

TypeWeight(t) ==
    IF t \in DOMAIN BUILDING_TYPE_WEIGHT THEN BUILDING_TYPE_WEIGHT[t] ELSE 10

\* exact comparison of two fractions with positive denominators
ScoreLess(a, b) == a.num * b.den < b.num * a.den

-----------------------------------------------------------------------------
(* add_priority_scores *)

\* the score with the 0.1 of the branch without fire left out
PriorityScoreUndamped(building, center) ==
    LET distance_to_center == haversine_distance(building.pos, center)
        weight10 == TypeWeight(building.type)
        fire_priority ==
            FireMultiplier(building.fire_severity) * building.fire_intensity * 10
    IN  IF building.has_fire
        THEN [num |-> weight10 + fire_priority * 10 * (distance_to_center + 1),
              den |-> 10 * (distance_to_center + 1)]
        ELSE [num |-> weight10, den |-> 10 * (distance_to_center + 1)]

\* The score add_priority_scores gives one building, as an exact fraction.
\*   base_score    = weight / (distance + 1)
\*   fire_priority = multiplier * intensity * 100
PriorityScore(building, center) ==
    LET distance_to_center == haversine_distance(building.pos, center)
        weight10 == TypeWeight(building.type)
        fire_priority ==
            FireMultiplier(building.fire_severity) * building.fire_intensity * 10
    IN  IF building.has_fire
        THEN [num |-> weight10 + fire_priority * 10 * (distance_to_center + 1),
              den |-> 10 * (distance_to_center + 1)]
        ELSE [num |-> weight10, den |-> 100 * (distance_to_center + 1)]

\* x placed in front of the elements of equal score: a sort that is not stable
InsertDescBeforeTies(x, sorted) ==
    LET before == SelectSeq(sorted,
                      LAMBDA y : ScoreLess(x.priority_score, y.priority_score))
        behind == SelectSeq(sorted,
                      LAMBDA y : ~ScoreLess(x.priority_score, y.priority_score))
    IN  before \o <<x>> \o behind

\* x placed into a list sorted by descending score, behind every element whose
\* score is not smaller: list.sort(reverse=True) is stable.
RECURSIVE InsertDesc(_, _)
InsertDesc(x, sorted) ==
    IF sorted = <<>> THEN <<x>>
    ELSE IF ScoreLess(Head(sorted).priority_score, x.priority_score)
         THEN <<x>> \o sorted
         ELSE <<Head(sorted)>> \o InsertDesc(x, Tail(sorted))

RECURSIVE SortInto(_, _)
SortInto(list, sorted) ==
    IF list = <<>> THEN sorted
    ELSE SortInto(Tail(list), InsertDesc(Head(list), sorted))

\* the same sort without reverse=True
RECURSIVE InsertAsc(_, _)
InsertAsc(x, sorted) ==
    IF sorted = <<>> THEN <<x>>
    ELSE IF ScoreLess(x.priority_score, Head(sorted).priority_score)
         THEN <<x>> \o sorted
         ELSE <<Head(sorted)>> \o InsertAsc(x, Tail(sorted))

RECURSIVE SortIntoAsc(_, _)
SortIntoAsc(list, sorted) ==
    IF list = <<>> THEN sorted
    ELSE SortIntoAsc(Tail(list), InsertAsc(Head(list), sorted))

SortAscending(list) == SortIntoAsc(list, <<>>)

\* list.sort(key=lambda b: b['priority_score'], reverse=True)
SortByPriority(list) == SortInto(list, <<>>)

add_priority_scores(list, center) ==
    SortByPriority([i \in 1..Len(list) |->
        [list[i] EXCEPT !.priority_score = PriorityScore(list[i], center)]])

-----------------------------------------------------------------------------
(* The agent-type advisor *)

\* What the recommendation service does on one call: it raises, or it answers
\* with a text, of which only the agent types it names matter.
Replies ==
    {[raises |-> TRUE, text |-> {}]} \cup
    {[raises |-> FALSE, text |-> S] : S \in SUBSET AgentTypes}

\* the table with its last branch answering 'truck'
FallbackTypeTruck(sev) ==
    IF sev = "low" THEN "volunteer" ELSE "truck"

\* The fallback table (the same three branches at each of its three places).
FallbackType(sev) ==
    IF sev = "low" THEN "volunteer"
    ELSE IF sev = "medium" THEN "truck"
    ELSE "drone"

get_optimal_agent_type_for_fire_severity(sev, key, available, rep) ==
    IF ~key \/ ~available THEN FallbackType(sev)
    ELSE IF rep.raises THEN FallbackType(sev)
    ELSE IF "volunteer" \in rep.text THEN "volunteer"
    ELSE IF "truck" \in rep.text THEN "truck"
    ELSE IF "drone" \in rep.text THEN "drone"
    ELSE FallbackType(sev)

\* get_optimal_agent_mapping: one call per severity, replies[sev] the
\* service's behaviour on that call.
get_optimal_agent_mapping(key, available, replies) ==
    [present |-> TRUE,
     table |-> [sev \in SeveritySet |->
        get_optimal_agent_type_for_fire_severity(sev, key, available, replies[sev])]]

\* Python truthiness of optimal_agent_mapping: None and {} are both false.
Truthy(mapping) == mapping.present /\ DOMAIN mapping.table # {}

\* optimal_agent_mapping.get(severity, 'truck')
MappingGet(mapping, sev) ==
    IF sev \in DOMAIN mapping.table THEN mapping.table[sev] ELSE "truck"

-----------------------------------------------------------------------------
(* initialize_agents, add_agent_speeds *)

Agent(type, i, center, profile) ==
    [id |-> <<type, i>>, type |-> type, current_coords |-> center,
     target_building |-> NoBuilding, route |-> NoRoute, profile |-> profile,
     speed |-> NoSpeed]

initialize_agents(center, num_trucks, num_drones, num_volunteers) ==
    [i \in 1..num_trucks |-> Agent("truck", i - 1, center, "driving")] \o
    [i \in 1..num_drones |-> Agent("drone", i - 1, center, "None")] \o
    [i \in 1..num_volunteers |-> Agent("volunteer", i - 1, center, "walking")]

\* AGENT_SPEEDS.get(agent['type'], 1)
SpeedOf(type) == IF type \in DOMAIN AGENT_SPEEDS THEN AGENT_SPEEDS[type] ELSE 10

add_agent_speeds(pool) ==
    [i \in 1..Len(pool) |-> [pool[i] EXCEPT !.speed = SpeedOf(pool[i].type)]]

-----------------------------------------------------------------------------
(* assign_by_priority *)

IsFree(agent) == agent.target_building = NoBuilding

\* The first agent of the pool, in pool order, that is free and of the type
\* (0: there is none).
FirstFreeOfType(pool, type) ==
    LET S == {i \in 1..Len(pool) : pool[i].type = type /\ IsFree(pool[i])}
    IN  IF S = {} THEN 0 ELSE CHOOSE i \in S : \A j \in S : i <= j

\* The first free agent of the pool of any type (0: there is none).
FirstFree(pool) ==
    LET S == {i \in 1..Len(pool) : IsFree(pool[i])}
    IN  IF S = {} THEN 0 ELSE CHOOSE i \in S : \A j \in S : i <= j

\* the first free agent, whatever its type
MatchingAgentAny(pool, optimal_type) == FirstFree(pool)

\* matching_agent of the fire phase
MatchingAgent(pool, optimal_type) ==
    IF FirstFreeOfType(pool, optimal_type) # 0
    THEN FirstFreeOfType(pool, optimal_type)
    ELSE FirstFree(pool)

\* agent['target_building'] = building; agent['route'] = None
Claim(pool, i, building) ==
    [pool EXCEPT ![i].target_building = building.id, ![i].route = NoRoute]

RemoveNothing(list, x) == list

\* list.remove(x): the list without its first element equal to x
RECURSIVE Remove(_, _)
Remove(list, x) ==
    IF list = <<>> THEN <<>>
    ELSE IF Head(list) = x THEN Tail(list)
    ELSE <<Head(list)>> \o Remove(Tail(list), x)

\* The loop over fire_buildings; st = [agents, unassigned, count, log], the
\* log holding one entry for each claim, in the order of the claims, with the
\* loop that made it.
RECURSIVE FirePhase(_, _, _)
FirePhase(st, fire_buildings, mapping) ==
    IF fire_buildings = <<>> THEN st
    ELSE LET building == Head(fire_buildings)
             optimal_type == MappingGet(mapping, building.fire_severity)
             m == MatchingAgent(st.agents, optimal_type)
         IN  IF m # 0
             THEN FirePhase([agents |-> Claim(st.agents, m, building),
                             unassigned |-> Remove(st.unassigned, building),
                             count |-> st.count + 1,
                             log |-> Append(st.log, [agent |-> m, site |-> building.id,
                                                      phase |-> "fire"])],
                            Tail(fire_buildings), mapping)
             ELSE FirePhase(st, Tail(fire_buildings), mapping)

\* unassigned.pop(0): the item popped and the list left
PopLast(list) ==
    [item |-> list[Len(list)], rest |-> SubSeq(list, 1, Len(list) - 1)]

Pop0(list) == [item |-> Head(list), rest |-> Tail(list)]

\* The loop over remaining_agents (indices into the pool).
RECURSIVE RemainderPhase(_, _)
RemainderPhase(st, remaining_agents) ==
    IF remaining_agents = <<>> \/ st.unassigned = <<>> THEN st
    ELSE LET popped == Pop0(st.unassigned)
             a == Head(remaining_agents)
         IN  RemainderPhase([agents |-> Claim(st.agents, a, popped.item),
                             unassigned |-> popped.rest,
                             count |-> st.count + 1,
                             log |-> Append(st.log, [agent |-> a, site |-> popped.item.id,
                                                      phase |-> "remainder"])],
                            Tail(remaining_agents))

HasFire(b) == b.has_fire

\* the fire phase run whatever the mapping
FirePhaseAlways(mapping) == TRUE

\* Whether the fire phase runs: `if optimal_agent_mapping:`
FirePhaseRuns(mapping) == Truthy(mapping)

\* assign_by_priority(agents, buildings, optimal_agent_mapping): the pool and
\* the count it returns, with the log of its claims.
assign_by_priority(pool, list, mapping) ==
    LET st0 == [agents |-> pool, unassigned |-> list, count |-> 0, log |-> <<>>]
        st1 == IF FirePhaseRuns(mapping)
               THEN FirePhase(st0, SortByPriority(SelectSeq(list, HasFire)), mapping)
               ELSE st0
        remaining_agents ==
            SelectSeq([i \in 1..Len(pool) |-> i], LAMBDA i : IsFree(st1.agents[i]))
    IN  RemainderPhase(st1, remaining_agents)

-----------------------------------------------------------------------------
(* Inputs *)

Building(id, pos, type, fire) ==
    [id |-> id, pos |-> pos, type |-> type, has_fire |-> fire[1],
     fire_severity |-> fire[2], fire_intensity |-> fire[3],
     priority_score |-> NoScore]

NoFire == <<FALSE, "none", 0>>

\* Where and what a site of the assignment harness is, and what
\* generate_fires may have drawn for it.
SiteProfiles == {<<1, "commercial">>, <<2, "residential">>}
FireDraws == {NoFire, <<TRUE, "low", 10>>, <<TRUE, "medium", 5>>, <<TRUE, "critical", 5>>}

SiteLists(profiles, fires) ==
    UNION {{[i \in 1..n |-> Building(i, p[i][1], p[i][2], f[i])] :
                p \in [1..n -> profiles], f \in [1..n -> fires]} : n \in 0..MaxSites}

Pools(center) ==
    {initialize_agents(center, t, d, v) :
        t \in 0..MaxPerKind, d \in 0..MaxPerKind, v \in 0..MaxPerKind}

FallbackTable == [sev \in SeveritySet |-> FallbackType(sev)]

\* The mappings handed to assign_by_priority: None, {}, and two tables
\* get_optimal_agent_mapping can return.
Mappings ==
    {None,
     [present |-> TRUE, table |-> <<>>],
     [present |-> TRUE, table |-> FallbackTable],
     [present |-> TRUE, table |-> [sev \in SeveritySet |-> "volunteer"]]}

NoReply == [raises |-> FALSE, text |-> {}]

-----------------------------------------------------------------------------
(* The assignment harness: a caller that scores a site list and runs        *)
(* assign_by_priority on a pool, and may run it again on the same pool.     *)

InitAssign ==
    /\ pc = "h_score"
    /\ MAPBOX_ACCESS_TOKEN = TRUE
    /\ GEMINI_API_KEY = TRUE
    /\ GEMINI_AVAILABLE = TRUE
    /\ center_coords = 0
    /\ buildings \in SiteLists(SiteProfiles, FireDraws)
    /\ agents \in Pools(0)
    /\ optimal_agent_mapping \in Mappings
    /\ fire_count = 0
    /\ assigned_count = 0
    /\ claim_log = <<>>
    /\ route_idx = 0
    /\ directions_log = <<>>
    /\ severity = "none"
    /\ reply = NoReply
    /\ recommended = "None"
    /\ mapping_builds = 0
    /\ advisor_log = <<>>

HScore ==
    /\ pc = "h_score"
    /\ buildings' = add_priority_scores(buildings, center_coords)
    /\ pc' = "h_assign"
    /\ UNCHANGED <<MAPBOX_ACCESS_TOKEN, GEMINI_API_KEY, GEMINI_AVAILABLE,
                   center_coords, agents, optimal_agent_mapping, fire_count,
                   assigned_count, claim_log, route_idx, directions_log,
                   severity, reply, recommended, mapping_builds, advisor_log>>

\* assign_by_priority as a step of the state: the pool is updated in place,
\* the count returned.
AssignStep(next_pc) ==
    LET r == assign_by_priority(agents, buildings, optimal_agent_mapping)
    IN  /\ agents' = r.agents
        /\ assigned_count' = r.count
        /\ claim_log' = r.log
        /\ pc' = next_pc
        /\ UNCHANGED <<MAPBOX_ACCESS_TOKEN, GEMINI_API_KEY, GEMINI_AVAILABLE,
                       center_coords, buildings, optimal_agent_mapping,
                       fire_count, route_idx, directions_log,
                       severity, reply, recommended,
                       mapping_builds, advisor_log>>

HAssign ==
    /\ pc = "h_assign"
    /\ AssignStep("h_assigned")

\* The same call again, on the pool as the previous run left it.
HReassign ==
    /\ pc \in {"h_assigned", "h_rerun"}
    /\ AssignStep("h_rerun")

NextAssign == HScore \/ HAssign \/ HReassign

SpecAssign == InitAssign /\ [][NextAssign]_vars

-----------------------------------------------------------------------------
(* Properties of assign_by_priority *)

AgentIdx == 1..Len(agents)
SiteIds == {buildings[i].id : i \in 1..Len(buildings)}
Site(id) == buildings[CHOOSE i \in 1..Len(buildings) : buildings[i].id = id]
FireSiteIds == {id \in SiteIds : Site(id).has_fire}
Targets == {agents[i].target_building : i \in AgentIdx} \ {NoBuilding}
HoldsSite(i) == agents[i].target_building # NoBuilding

\* No two agents of the pool hold the same site.
Injective(pool) ==
    \A i, j \in 1..Len(pool) :
        (i # j /\ ~IsFree(pool[i]) /\ ~IsFree(pool[j]))
            => pool[i].target_building # pool[j].target_building

\* C1: after one run of assign_by_priority on a free pool, no site is the
\* target of two agents, and no agent was given two sites: no two claims of
\* the run share a site or an agent, and the sites held are sites of the list.
C1_PartialInjective ==
    pc = "h_assigned" =>
        /\ Injective(agents)
        /\ Targets \subseteq SiteIds
        /\ \A k, l \in 1..Len(claim_log) :
              k # l => /\ claim_log[k].site # claim_log[l].site
                       /\ claim_log[k].agent # claim_log[l].agent
        /\ \A k \in 1..Len(claim_log) :
              agents[claim_log[k].agent].target_building = claim_log[k].site

\* A run whose fire phase and remainder phase both claimed a site.
C1_Witness ==
    /\ pc = "h_assigned"
    /\ Truthy(optimal_agent_mapping)
    /\ Len(claim_log) >= 2
    /\ \E k \in 1..Len(claim_log) : Site(claim_log[k].site).has_fire
    /\ \E k \in 1..Len(claim_log) : ~Site(claim_log[k].site).has_fire

\* C2: with no more fire sites than agents, after assign_by_priority on a
\* scored and ranked list every fire site is the target of some agent and no
\* site without fire was claimed before a fire site, with or without mapping.
C2_FiresFirst ==
    (pc = "h_assigned" /\ Cardinality(FireSiteIds) <= Len(agents)) =>
        /\ FireSiteIds \subseteq Targets
        /\ \A k, l \in 1..Len(claim_log) :
              (k < l /\ ~Site(claim_log[k].site).has_fire)
                  => ~Site(claim_log[l].site).has_fire

\* No mapping was supplied, the fire site came second in the caller's list,
\* and both a fire site and a site without fire were claimed.
C2_Witness ==
    /\ pc = "h_assigned"
    /\ ~Truthy(optimal_agent_mapping)
    /\ Cardinality(FireSiteIds) <= Len(agents)
    /\ \E k, l \in 1..Len(claim_log) :
          /\ k < l
          /\ Site(claim_log[k].site).has_fire
          /\ ~Site(claim_log[l].site).has_fire
          /\ claim_log[k].site > claim_log[l].site

\* C3: fire sites claim agents in descending score order: whenever a fire
\* site is left unassigned, every fire site of strictly lower score is too.
C3_DescendingClaims ==
    pc = "h_assigned" =>
        \A f, g \in FireSiteIds :
            (f \notin Targets
             /\ ScoreLess(Site(g).priority_score, Site(f).priority_score))
                => g \notin Targets

\* One agent, two fire sites of different scores: the higher one is held.
C3_Witness ==
    /\ pc = "h_assigned"
    /\ Len(agents) = 1
    /\ Truthy(optimal_agent_mapping)
    /\ \E f, g \in FireSiteIds :
          /\ ScoreLess(Site(g).priority_score, Site(f).priority_score)
          /\ f \in Targets
          /\ g \notin Targets

\* The pool with every assignment and route cleared.
Fresh(pool) ==
    [i \in 1..Len(pool) |->
        [pool[i] EXCEPT !.target_building = NoBuilding, !.route = NoRoute]]

\* C4: a further run of assign_by_priority on a pool that carries the
\* assignments of a previous run yields the pairing of a run on a fresh pool,
\* and leaves no site held by two agents.
C4_RerunAsFresh ==
    pc = "h_rerun" =>
        /\ agents = assign_by_priority(Fresh(agents), buildings,
                                       optimal_agent_mapping).agents
        /\ Injective(agents)

Least(S) == CHOOSE i \in S : \A j \in S : i <= j
Smaller(m, n) == IF m < n THEN m ELSE n

\* The agents no claim before the k-th claim of the run took: on a pool that
\* was free at the call, the agents free at the moment of the k-th claim.
FreeBefore(k) == AgentIdx \ {claim_log[j].agent : j \in 1..(k - 1)}

C13_FirePhaseWithoutMapping ==
    (pc = "h_assigned" /\ ~Truthy(optimal_agent_mapping)) =>
        \A k \in 1..Len(claim_log) :
            Site(claim_log[k].site).has_fire =>
                /\ claim_log[k].phase = "fire"
                /\ LET trucks == {i \in FreeBefore(k) : agents[i].type = "truck"}
                   IN  trucks # {} => claim_log[k].agent = Least(trucks)

\* C13, as the code has it: without a mapping (None or {}) the fire phase does
\* not run; every claim is a claim of the remainder phase, the k-th site of the
\* ranked list going to the k-th agent of the pool whatever its type.
C13_NoMappingNoFirePhase ==
    (pc = "h_assigned" /\ ~Truthy(optimal_agent_mapping)) =>
        /\ Len(claim_log) = Smaller(Len(agents), Len(buildings))
        /\ \A k \in 1..Len(claim_log) :
              /\ claim_log[k].phase = "remainder"
              /\ claim_log[k].agent = k
              /\ claim_log[k].site = buildings[k].id

\* No mapping, and a fire site was claimed, by a drone.
C13_Witness ==
    /\ pc = "h_assigned"
    /\ optimal_agent_mapping = None
    /\ \E k \in 1..Len(claim_log) :
          /\ Site(claim_log[k].site).has_fire
          /\ agents[claim_log[k].agent].type = "drone"

\* C14: the k-th agent left free by the fire phase is given the k-th site left
\* unassigned by it, until the agents or the sites run out: on return no agent
\* is free or no site is unassigned, and the count returned is the number of
\* agents holding a site, the smaller of the number of agents and of sites.
C14_RemainderPairing ==
    pc = "h_assigned" =>
        LET taken == {k \in 1..Len(claim_log) : claim_log[k].phase = "fire"}
            free == SelectSeq([i \in 1..Len(agents) |-> i],
                        LAMBDA i : \A k \in taken : claim_log[k].agent # i)
            left == SelectSeq(buildings,
                        LAMBDA b : \A k \in taken : claim_log[k].site # b.id)
            rest == SelectSeq(claim_log, LAMBDA e : e.phase = "remainder")
        IN  /\ Len(rest) = Smaller(Len(free), Len(left))
            /\ \A k \in 1..Len(rest) :
                  /\ rest[k].agent = free[k]
                  /\ rest[k].site = left[k].id
            /\ (\A i \in AgentIdx : HoldsSite(i)) \/ SiteIds \subseteq Targets
            /\ assigned_count = Cardinality({i \in AgentIdx : HoldsSite(i)})
            /\ assigned_count = Smaller(Len(agents), Len(buildings))

\* The fire phase took the second agent of the pool for the first site of the
\* list; the remainder phase paired the first agent with the second site, and
\* an agent stayed free because the sites ran out.
C14_Witness ==
    /\ pc = "h_assigned"
    /\ Len(claim_log) = 2
    /\ Len(agents) > 2
    /\ claim_log[1].phase = "fire"
    /\ claim_log[1].agent = 2
    /\ claim_log[1].site = buildings[1].id
    /\ claim_log[2] = [agent |-> 1, site |-> buildings[2].id, phase |-> "remainder"]

\* The place of the site with this id in a list.
PlaceIn(list, id) == CHOOSE i \in 1..Len(list) : list[i].id = id

\* ranked is list reordered by descending score, sites of equal score in the
\* order they have in list.
RankedFrom(list, ranked) ==
    /\ Len(ranked) = Len(list)
    /\ \A i \in 1..Len(list) : \E j \in 1..Len(ranked) : ranked[j] = list[i]
    /\ \A i, j \in 1..Len(ranked) :
          i < j => ~ScoreLess(ranked[i].priority_score, ranked[j].priority_score)
    /\ \A i, j \in 1..Len(list) :
          (i < j /\ ~ScoreLess(list[i].priority_score, list[j].priority_score)
                 /\ ~ScoreLess(list[j].priority_score, list[i].priority_score))
              => PlaceIn(ranked, list[i].id) < PlaceIn(ranked, list[j].id)

\* The sites as add_priority_scores scores them, in the caller's order.
Scored(list, center) ==
    [i \in 1..Len(list) |->
        [list[i] EXCEPT !.priority_score = PriorityScore(list[i], center)]]

\* C18: the ranking is the scored input list reordered: the same sites, by
\* descending score, sites of equal score in their original relative order;
\* and the fire sites are claimed in that order.
C18_StableRanking ==
    [][/\ pc = "h_score" =>
             RankedFrom(Scored(buildings, center_coords), buildings')
       /\ pc = "h_assign" =>
             LET fires == SelectSeq(buildings, HasFire)
                 claims == SelectSeq(claim_log', LAMBDA e : e.phase = "fire")
             IN  \A k, l \in 1..Len(claims) :
                     k < l => PlaceIn(fires, claims[k].site)
                                  < PlaceIn(fires, claims[l].site)]_vars

\* A ranked list of two sites of equal score, the first of the caller's list
\* still first, both on fire and both claimed in the fire phase.
C18_Witness ==
    /\ pc = "h_assigned"
    /\ Len(buildings) = 2
    /\ buildings[1].priority_score = buildings[2].priority_score
    /\ buildings[1].id < buildings[2].id
    /\ Len(claim_log) = 2
    /\ claim_log[1] = [agent |-> 1, site |-> buildings[1].id, phase |-> "fire"]
    /\ claim_log[2].phase = "fire"

-----------------------------------------------------------------------------
(* The advisor harness: one call of                                         *)
(* get_optimal_agent_type_for_fire_severity, for every configuration and    *)
(* every behaviour of the service.                                          *)

InitAdvisor ==
    /\ pc = "a_ask"
    /\ MAPBOX_ACCESS_TOKEN = TRUE
    /\ GEMINI_API_KEY \in BOOLEAN
    /\ GEMINI_AVAILABLE \in BOOLEAN
    /\ center_coords = 0
    /\ buildings = <<>>
    /\ agents = <<>>
    /\ optimal_agent_mapping = None
    /\ fire_count = 0
    /\ assigned_count = 0
    /\ claim_log = <<>>
    /\ route_idx = 0
    /\ directions_log = <<>>
    /\ severity \in SeveritySet \cup {"none"}
    /\ reply \in Replies
    /\ recommended = "None"
    /\ mapping_builds = 0
    /\ advisor_log = <<>>

ARecommend ==
    /\ pc = "a_ask"
    /\ recommended' = get_optimal_agent_type_for_fire_severity(
                          severity, GEMINI_API_KEY, GEMINI_AVAILABLE, reply)
    /\ pc' = "a_done"
    /\ UNCHANGED <<MAPBOX_ACCESS_TOKEN, GEMINI_API_KEY, GEMINI_AVAILABLE,
                   center_coords, buildings, agents, optimal_agent_mapping,
                   fire_count, assigned_count, claim_log, route_idx,
                   directions_log, severity, reply,
                   mapping_builds, advisor_log>>

NextAdvisor == ARecommend

SpecAdvisor == InitAdvisor /\ [][NextAdvisor]_vars

\* C8: for each of low, medium, high, critical, when the service is
\* unconfigured, raises, or names none of the three agent types, the result is
\* the table value (low -> volunteer, medium -> truck, high and critical ->
\* drone); the result is always one of the three agent types.
C8_FallbackTable ==
    (pc = "a_done" /\ severity \in SeveritySet) =>
        /\ recommended \in {"volunteer", "truck", "drone"}
        /\ (~GEMINI_API_KEY \/ ~GEMINI_AVAILABLE \/ reply.raises \/ reply.text = {})
              => recommended =
                    [low |-> "volunteer", medium |-> "truck",
                     high |-> "drone", critical |-> "drone"][severity]

\* The configured service raised on a critical fire and drone came back.
C8_Witness ==
    /\ pc = "a_done"
    /\ severity = "critical"
    /\ GEMINI_API_KEY /\ GEMINI_AVAILABLE
    /\ reply.raises
    /\ recommended = "drone"

-----------------------------------------------------------------------------
(* The scoring harness: add_priority_scores on a site and its twin of the   *)
(* same type and place, one on fire and one not.                            *)

ScoreSeverities == {"none", "low", "medium", "high", "critical", "unknown"}
ScoreIntensities == {0, 1, 5, 10}
Centers == {0, 1}

\* A site on fire and its twin not on fire; the twin's severity and intensity
\* fields are cleared, as generate_fires leaves them, or kept.
Twins ==
    {<<Building(1, p, t, <<TRUE, sev, int>>),
       Building(2, p, t, IF kept THEN <<FALSE, sev, int>> ELSE NoFire)>> :
        p \in Positions, t \in BuildingTypes, sev \in ScoreSeverities,
        int \in ScoreIntensities, kept \in BOOLEAN}

InitScore ==
    /\ pc = "s_score"
    /\ MAPBOX_ACCESS_TOKEN = TRUE
    /\ GEMINI_API_KEY = TRUE
    /\ GEMINI_AVAILABLE = TRUE
    /\ center_coords \in Centers
    /\ \E tw \in Twins : buildings \in {tw, <<tw[2], tw[1]>>}
    /\ agents = <<>>
    /\ optimal_agent_mapping = None
    /\ fire_count = 0
    /\ assigned_count = 0
    /\ claim_log = <<>>
    /\ route_idx = 0
    /\ directions_log = <<>>
    /\ severity = "none"
    /\ reply = NoReply
    /\ recommended = "None"
    /\ mapping_builds = 0
    /\ advisor_log = <<>>

SScore ==
    /\ pc = "s_score"
    /\ buildings' = add_priority_scores(buildings, center_coords)
    /\ pc' = "s_scored"
    /\ UNCHANGED <<MAPBOX_ACCESS_TOKEN, GEMINI_API_KEY, GEMINI_AVAILABLE,
                   center_coords, agents, optimal_agent_mapping, fire_count,
                   assigned_count, claim_log, route_idx, directions_log,
                   severity, reply, recommended, mapping_builds, advisor_log>>

NextScore == SScore

SpecScore == InitScore /\ [][NextScore]_vars

\* C10: of two scored sites of the same type and the same distance to the
\* centre, the one on fire with intensity > 0 has the strictly greater
\* score than the one not on fire, whatever its severity.
C10_FireScoresHigher ==
    pc = "s_scored" =>
        \A i, j \in 1..Len(buildings) :
            (/\ buildings[i].has_fire
             /\ ~buildings[j].has_fire
             /\ buildings[i].fire_intensity > 0
             /\ buildings[i].type = buildings[j].type
             /\ buildings[i].pos = buildings[j].pos)
                => ScoreLess(buildings[j].priority_score,
                             buildings[i].priority_score)

\* A fire of severity 'none' (multiplier 0) and intensity > 0 was scored
\* and ranked before its twin.
C10_Witness ==
    /\ pc = "s_scored"
    /\ buildings[1].has_fire
    /\ buildings[1].fire_severity = "none"
    /\ buildings[1].fire_intensity > 0
    /\ ~buildings[2].has_fire
    /\ ScoreLess(buildings[2].priority_score, buildings[1].priority_score)

-----------------------------------------------------------------------------
(* compute_routes, update_route_durations_by_speed *)

CoordsOf(list, id) ==
    list[CHOOSE i \in 1..Len(list) : list[i].id = id].pos

\* the straight line at the speed of a truck
StraightLineGround(start, end) ==
    [geometry |-> <<start, end>>,
     distance |-> haversine_distance(start, end),
     duration |-> Div(haversine_distance(start, end), 120),
     type |-> "straight_line"]

\* the drone branch: a straight line flown at 15 m/s
StraightLine(start, end) ==
    [geometry |-> <<start, end>>,
     distance |-> haversine_distance(start, end),
     duration |-> Div(haversine_distance(start, end), 150),
     type |-> "straight_line"]

\* What get_mapbox_directions can do on one call: return a route (status
\* 200, a route in the body), return None (another status, or no route in
\* the body), or raise (the request fails, or the body lacks a key).
DirectionsOutcomes == {"ok", "unavailable", "malformed", "raised"}

\* The routes a 200 response may carry from start to end: along the
\* straight line or one metre longer, driven at 1 m/s.
ProviderRoutes(start, end) ==
    {[geometry |-> <<start, end>>,
      distance |-> haversine_distance(start, end) + detour,
      duration |-> (haversine_distance(start, end) + detour) * TicksPerSecond,
      type |-> "precise"] : detour \in {0, 1}}

\* get_mapbox_directions: the values it can return for an outcome that
\* returns (None as NoRoute).
get_mapbox_directions(start, end, outcome) ==
    IF outcome = "ok" THEN ProviderRoutes(start, end) ELSE {NoRoute}

Raises(outcome) == outcome \in {"malformed", "raised"}

\* no route cleared
KeepRoutes(pool) == pool

\* compute_routes' first loop
ClearRoutes(pool) == [i \in 1..Len(pool) |-> [pool[i] EXCEPT !.route = NoRoute]]

\* the post-pass dividing the duration it finds, not the distance
UpdateRescaling(pool) ==
    [i \in 1..Len(pool) |->
        IF pool[i].route # NoRoute
        THEN [pool[i] EXCEPT !.route.duration =
                (pool[i].route.duration * 10)
                    \div (IF pool[i].speed = NoSpeed THEN 10 ELSE pool[i].speed)]
        ELSE pool[i]]

\* the post-pass that leaves precise routes as the provider gave them
UpdateStraightOnly(pool) ==
    [i \in 1..Len(pool) |->
        IF pool[i].route.type = "straight_line"
        THEN [pool[i] EXCEPT !.route.duration =
                Div(pool[i].route.distance,
                    IF pool[i].speed = NoSpeed THEN 10 ELSE pool[i].speed)]
        ELSE pool[i]]

\* update_route_durations_by_speed; agent.get('speed', 1)
update_route_durations_by_speed(pool) ==
    [i \in 1..Len(pool) |->
        IF pool[i].route # NoRoute
        THEN [pool[i] EXCEPT !.route.duration =
                Div(pool[i].route.distance,
                    IF pool[i].speed = NoSpeed THEN 10 ELSE pool[i].speed)]
        ELSE pool[i]]

-----------------------------------------------------------------------------
(* The program main.py: the __main__ guard and main()                       *)

DefaultCenter == 0       \* [-118.1445, 34.1478]
GeocodedCenter == 1      \* what the geocoder answers for place_name

\* Sites as the building lookup or the sample generator make them.
MainProfiles == {<<1, "residential">>, <<2, "commercial">>}
MainSiteLists == SiteLists(MainProfiles, {NoFire}) \ {<<>>}

\* What the recommendation service does on a call of a cycle.
MainReplies ==
    {[raises |-> TRUE, text |-> {}], [raises |-> FALSE, text |-> {}],
     [raises |-> FALSE, text |-> {"truck"}]}

ExternalOutcomes == {"ok", "unavailable", "malformed", "raised"}

Init ==
    /\ pc = "start"
    /\ MAPBOX_ACCESS_TOKEN \in BOOLEAN
    /\ GEMINI_API_KEY \in BOOLEAN
    /\ GEMINI_AVAILABLE \in BOOLEAN
    /\ center_coords = DefaultCenter
    /\ buildings = <<>>
    /\ agents = <<>>
    /\ optimal_agent_mapping = None
    /\ fire_count = 0
    /\ assigned_count = 0
    /\ claim_log = <<>>
    /\ route_idx = 0
    /\ directions_log = <<>>
    /\ severity = "none"
    /\ reply = NoReply
    /\ recommended = "None"
    /\ mapping_builds = 0
    /\ advisor_log = <<>>

\* if __name__ == "__main__": with a token missing the program prints what
\* is missing and ends; main() is called only when both are set.
Guard ==
    /\ pc = "start"
    /\ pc' = IF ~MAPBOX_ACCESS_TOKEN \/ ~GEMINI_API_KEY THEN "not_run" ELSE "geocode"
    /\ UNCHANGED <<MAPBOX_ACCESS_TOKEN, GEMINI_API_KEY, GEMINI_AVAILABLE,
                   center_coords, buildings, agents, optimal_agent_mapping,
                   fire_count, assigned_count, claim_log, route_idx,
                   directions_log, severity, reply, recommended,
                   mapping_builds, advisor_log>>

\* center_coords = geocode_location(place_name), or the default
Geocode ==
    /\ pc = "geocode"
    /\ \E outcome \in ExternalOutcomes :
          /\ pc' = IF Raises(outcome) THEN "crashed" ELSE "fetch"
          /\ center_coords' = IF outcome = "ok" THEN GeocodedCenter ELSE DefaultCenter
    /\ UNCHANGED <<MAPBOX_ACCESS_TOKEN, GEMINI_API_KEY, GEMINI_AVAILABLE,
                   buildings, agents, optimal_agent_mapping, fire_count,
                   assigned_count, claim_log, route_idx, directions_log,
                   severity, reply, recommended, mapping_builds, advisor_log>>

\* buildings = get_buildings_from_mapbox(...), or the sample buildings when
\* the lookup returns none
FetchBuildings ==
    /\ pc = "fetch"
    /\ \E outcome \in ExternalOutcomes :
          IF Raises(outcome)
          THEN pc' = "crashed" /\ buildings' = buildings
          ELSE pc' = "fires" /\ buildings' \in MainSiteLists
    /\ UNCHANGED <<MAPBOX_ACCESS_TOKEN, GEMINI_API_KEY, GEMINI_AVAILABLE,
                   center_coords, agents, optimal_agent_mapping, fire_count,
                   assigned_count, claim_log, route_idx, directions_log,
                   severity, reply, recommended, mapping_builds, advisor_log>>

\* fire_count = generate_fires(buildings, 0.3)
GenerateFires ==
    /\ pc = "fires"
    /\ \E draw \in [1..Len(buildings) -> FireDraws] :
          /\ buildings' = [i \in 1..Len(buildings) |->
                [buildings[i] EXCEPT !.has_fire = draw[i][1],
                                     !.fire_severity = draw[i][2],
                                     !.fire_intensity = draw[i][3]]]
          /\ fire_count' = Cardinality({i \in 1..Len(buildings) : draw[i][1]})
    /\ pc' = "agents"
    /\ UNCHANGED <<MAPBOX_ACCESS_TOKEN, GEMINI_API_KEY, GEMINI_AVAILABLE,
                   center_coords, agents, optimal_agent_mapping,
                   assigned_count, claim_log, route_idx, directions_log,
                   severity, reply, recommended, mapping_builds, advisor_log>>

\* agents = initialize_agents(center_coords); add_agent_speeds(agents).
\* The default pool of 5 trucks, 3 drones and 10 volunteers is scaled down
\* to MaxPerKind of each.
InitializeAgents ==
    /\ pc = "agents"
    /\ agents' = add_agent_speeds(
                    initialize_agents(center_coords, MaxPerKind, MaxPerKind, MaxPerKind))
    /\ pc' = "mapping"
    /\ UNCHANGED <<MAPBOX_ACCESS_TOKEN, GEMINI_API_KEY, GEMINI_AVAILABLE,
                   center_coords, buildings, optimal_agent_mapping, fire_count,
                   assigned_count, claim_log, route_idx, directions_log,
                   severity, reply, recommended, mapping_builds, advisor_log>>

\* the advisor asked whether or not a fire was reported
ConsultsAlways(fires) == TRUE

\* `if fire_count > 0:`
ConsultsAdvisor(fires) == fires > 0

\* The calls of get_optimal_agent_type_for_fire_severity one call of
\* get_optimal_agent_mapping makes, in order; consulted: whether the call
\* reaches the recommendation service (model.generate_content).
AdvisorCalls(key, available) ==
    [i \in 1..Len(Severities) |->
        [severity |-> Severities[i], consulted |-> key /\ available]]

\* optimal_agent_mapping = get_optimal_agent_mapping() if fire_count > 0
BuildMapping ==
    /\ pc = "mapping"
    /\ IF ConsultsAdvisor(fire_count)
       THEN /\ \E replies \in [SeveritySet -> MainReplies] :
                  optimal_agent_mapping' =
                      get_optimal_agent_mapping(GEMINI_API_KEY, GEMINI_AVAILABLE, replies)
            /\ mapping_builds' = mapping_builds + 1
            /\ advisor_log' = advisor_log \o AdvisorCalls(GEMINI_API_KEY, GEMINI_AVAILABLE)
       ELSE /\ optimal_agent_mapping' = None
            /\ UNCHANGED <<mapping_builds, advisor_log>>
    /\ pc' = "score"
    /\ UNCHANGED <<MAPBOX_ACCESS_TOKEN, GEMINI_API_KEY, GEMINI_AVAILABLE,
                   center_coords, buildings, agents, fire_count,
                   assigned_count, claim_log, route_idx, directions_log,
                   severity, reply, recommended>>

Score ==
    /\ pc = "score"
    /\ buildings' = add_priority_scores(buildings, center_coords)
    /\ pc' = "assign"
    /\ UNCHANGED <<MAPBOX_ACCESS_TOKEN, GEMINI_API_KEY, GEMINI_AVAILABLE,
                   center_coords, agents, optimal_agent_mapping, fire_count,
                   assigned_count, claim_log, route_idx, directions_log,
                   severity, reply, recommended, mapping_builds, advisor_log>>

Assign ==
    /\ pc = "assign"
    /\ AssignStep("routes_clear")

\* compute_routes, first loop: every route is cleared
ComputeRoutesClear ==
    /\ pc = "routes_clear"
    /\ agents' = ClearRoutes(agents)
    /\ route_idx' = 1
    /\ directions_log' = [i \in 1..Len(agents) |-> "pending"]
    /\ pc' = IF agents = <<>> THEN "durations" ELSE "routes"
    /\ UNCHANGED <<MAPBOX_ACCESS_TOKEN, GEMINI_API_KEY, GEMINI_AVAILABLE,
                   center_coords, buildings, optimal_agent_mapping, fire_count,
                   assigned_count, claim_log, severity, reply, recommended,
                   mapping_builds, advisor_log>>

\* compute_routes, second loop: the route attempt of agent route_idx
RouteAgent ==
    /\ pc = "routes"
    /\ LET i == route_idx
           agent == agents[i]
           start == agent.current_coords
           next_pc == IF i = Len(agents) THEN "durations" ELSE "routes"
       IN  IF agent.target_building = NoBuilding
           THEN /\ agents' = agents
                /\ directions_log' = [directions_log EXCEPT ![i] = "no_target"]
                /\ pc' = next_pc
           ELSE IF agent.type = "drone"
           THEN /\ agents' = [agents EXCEPT ![i].route =
                        StraightLine(start, CoordsOf(buildings, agent.target_building))]
                /\ directions_log' = [directions_log EXCEPT ![i] = "not_called"]
                /\ pc' = next_pc
           ELSE \E outcome \in DirectionsOutcomes :
                /\ directions_log' = [directions_log EXCEPT ![i] = outcome]
                /\ IF Raises(outcome)
                   THEN agents' = agents /\ pc' = "crashed"
                   ELSE /\ \E route \in get_mapbox_directions(
                                 start, CoordsOf(buildings, agent.target_building), outcome) :
                              agents' = IF route # NoRoute
                                        THEN [agents EXCEPT ![i].route = route]
                                        ELSE agents
                        /\ pc' = next_pc
    /\ route_idx' = route_idx + 1
    /\ UNCHANGED <<MAPBOX_ACCESS_TOKEN, GEMINI_API_KEY, GEMINI_AVAILABLE,
                   center_coords, buildings, optimal_agent_mapping, fire_count,
                   assigned_count, claim_log, severity, reply, recommended,
                   mapping_builds, advisor_log>>

UpdateDurations ==
    /\ pc = "durations"
    /\ agents' = update_route_durations_by_speed(agents)
    /\ pc' = "summary"
    /\ UNCHANGED <<MAPBOX_ACCESS_TOKEN, GEMINI_API_KEY, GEMINI_AVAILABLE,
                   center_coords, buildings, optimal_agent_mapping, fire_count,
                   assigned_count, claim_log, route_idx, directions_log,
                   severity, reply, recommended, mapping_builds, advisor_log>>

\* the summary statistics and the dump of the agents; nothing of the
\* planning state changes
Summary ==
    /\ pc = "summary"
    /\ pc' = "done"
    /\ UNCHANGED <<MAPBOX_ACCESS_TOKEN, GEMINI_API_KEY, GEMINI_AVAILABLE,
                   center_coords, buildings, agents, optimal_agent_mapping,
                   fire_count, assigned_count, claim_log, route_idx,
                   directions_log, severity, reply, recommended,
                   mapping_builds, advisor_log>>

Next ==
    \/ Guard
    \/ Geocode
    \/ FetchBuildings
    \/ GenerateFires
    \/ InitializeAgents
    \/ BuildMapping
    \/ Score
    \/ Assign
    \/ ComputeRoutesClear
    \/ RouteAgent
    \/ UpdateDurations
    \/ Summary

Spec == Init /\ [][Next]_vars

-----------------------------------------------------------------------------
(* Properties of the program *)

\* C5: whatever an external call of the cycle does (success, unavailable,
\* malformed response, raised error), the cycle is not aborted: main() never
\* ends in an uncaught exception.
C5_NoExternalFailureAborts == pc # "crashed"

\* C6: with the token or the key missing, starting the program still runs
\* a planning cycle: the program does not end without calling main().
C6_RunsWithoutCredentials ==
    (~MAPBOX_ACCESS_TOKEN \/ ~GEMINI_API_KEY) => pc # "not_run"

FailedDirections == {"unavailable", "malformed", "raised"}

\* the fallback speeds of the claim, in tenths of m/s
FallbackSpeed(type) ==
    IF type = "truck" THEN 120 ELSE IF type = "volunteer" THEN 25 ELSE 10

\* C7: when compute_routes has returned, every agent that is no drone, holds
\* a site and whose directions call failed has the straight-line route
\* [current, target] with duration distance / fallbackSpeed, and no agent
\* holding a site is without a route.
C7_FallbackRoute ==
    pc = "durations" =>
        \A i \in AgentIdx :
            HoldsSite(i) =>
                /\ agents[i].route # NoRoute
                /\ (agents[i].type # "drone" /\ directions_log[i] \in FailedDirections)
                      => LET target == CoordsOf(buildings, agents[i].target_building)
                             start == agents[i].current_coords
                         IN  /\ agents[i].route.type = "straight_line"
                             /\ agents[i].route.geometry = <<start, target>>
                             /\ agents[i].route.duration * FallbackSpeed(agents[i].type)
                                   = haversine_distance(start, target) * 10 * TicksPerSecond

\* C9: the duration post-pass has run only when every agent's route attempt
\* is over, and at the end of the cycle every agent holding a route has
\* duration = distance / its own speed, for precise and straight-line routes.
C9_DurationsFromSpeed ==
    /\ pc \in {"summary", "done"} =>
          /\ route_idx > Len(agents)
          /\ \A i \in AgentIdx : directions_log[i] # "pending"
    /\ pc = "done" =>
          \A i \in AgentIdx :
              agents[i].route # NoRoute =>
                  /\ agents[i].speed # NoSpeed
                  /\ agents[i].route.duration * agents[i].speed
                        = agents[i].route.distance * 10 * TicksPerSecond

\* A cycle ended with a precise route, longer than the straight line, on a
\* truck and a straight-line route on a drone.
C9_Witness ==
    /\ pc = "done"
    /\ \E i \in AgentIdx :
          /\ agents[i].type = "truck"
          /\ agents[i].route.type = "precise"
          /\ agents[i].route.distance >
                haversine_distance(agents[i].current_coords,
                                   CoordsOf(buildings, agents[i].target_building))
    /\ \E i \in AgentIdx :
          /\ agents[i].type = "drone"
          /\ agents[i].route.type = "straight_line"
          /\ agents[i].route.distance > 0

AfterMapping ==
    {"score", "assign", "routes_clear", "routes", "durations", "summary", "done"}

\* C16: the advisor is called only in a cycle whose fire generation reported
\* a fire. Once main() is past the mapping step: with no fire the mapping is
\* None, never built, and no advisor call was made; with a fire the mapping was
\* built exactly once, by one call for each of low, medium, high, critical,
\* and has an entry for each of the four.
C16_AdviceOnlyOnFire ==
    /\ mapping_builds <= 1
    /\ (mapping_builds > 0 \/ advisor_log # <<>>) => fire_count > 0
    /\ pc \in AfterMapping =>
          IF fire_count = 0
          THEN /\ optimal_agent_mapping = None
               /\ mapping_builds = 0
               /\ advisor_log = <<>>
          ELSE /\ mapping_builds = 1
               /\ optimal_agent_mapping.present
               /\ DOMAIN optimal_agent_mapping.table
                     = {"low", "medium", "high", "critical"}
               /\ [i \in 1..Len(advisor_log) |-> advisor_log[i].severity]
                     = <<"low", "medium", "high", "critical">>

\* A cycle with a fire ended, its mapping built from the service's answers.
C16_Witness ==
    /\ pc = "done"
    /\ fire_count > 0
    /\ mapping_builds = 1
    /\ Len(advisor_log) = 4
    /\ advisor_log[1].consulted

-----------------------------------------------------------------------------
(* The route harness: a caller that runs compute_routes on an assigned pool *)
(* and then update_route_durations_by_speed, twice, and may compute the     *)
(* routes again.                                                            *)

\* A route of an earlier computation, to a place that is no site of the list.
OldTarget == 3
StaleRoute(start) ==
    [geometry |-> <<start, OldTarget>>,
     distance |-> haversine_distance(start, OldTarget),
     duration |-> haversine_distance(start, OldTarget) * TicksPerSecond,
     type |-> "precise"]

WithStaleRoutes(pool) ==
    [i \in 1..Len(pool) |->
        [pool[i] EXCEPT !.route = StaleRoute(pool[i].current_coords)]]

RouteSiteLists == SiteLists(SiteProfiles, {NoFire}) \ {<<>>}

InitRoutes ==
    /\ pc = "routes_clear"
    /\ MAPBOX_ACCESS_TOKEN = TRUE
    /\ GEMINI_API_KEY = TRUE
    /\ GEMINI_AVAILABLE = TRUE
    /\ center_coords = DefaultCenter
    /\ optimal_agent_mapping = None
    /\ \E list \in RouteSiteLists, pool \in Pools(DefaultCenter),
          speeds \in BOOLEAN, stale \in BOOLEAN :
          LET ranked == add_priority_scores(list, DefaultCenter)
              pool1 == IF speeds THEN add_agent_speeds(pool) ELSE pool
              pool2 == IF stale THEN WithStaleRoutes(pool1) ELSE pool1
              r == assign_by_priority(pool2, ranked, None)
          IN  /\ buildings = ranked
              /\ agents = r.agents
              /\ assigned_count = r.count
              /\ claim_log = r.log
    /\ fire_count = 0
    /\ route_idx = 0
    /\ directions_log = <<>>
    /\ severity = "none"
    /\ reply = NoReply
    /\ recommended = "None"
    /\ mapping_builds = 0
    /\ advisor_log = <<>>

UpdateStep(next_pc) ==
    /\ agents' = update_route_durations_by_speed(agents)
    /\ pc' = next_pc
    /\ UNCHANGED <<MAPBOX_ACCESS_TOKEN, GEMINI_API_KEY, GEMINI_AVAILABLE,
                   center_coords, buildings, optimal_agent_mapping, fire_count,
                   assigned_count, claim_log, route_idx, directions_log,
                   severity, reply, recommended, mapping_builds, advisor_log>>

RUpdate ==
    /\ pc = "durations"
    /\ UpdateStep("r_updated")

\* update_route_durations_by_speed once more, on the pool it has left
RUpdateAgain ==
    /\ pc = "r_updated"
    /\ UpdateStep("r_updated_twice")

\* compute_routes called again on the same pool
RRecompute ==
    /\ pc \in {"durations", "r_updated", "r_updated_twice"}
    /\ pc' = "routes_clear"
    /\ UNCHANGED <<MAPBOX_ACCESS_TOKEN, GEMINI_API_KEY, GEMINI_AVAILABLE,
                   center_coords, buildings, agents, optimal_agent_mapping,
                   fire_count, assigned_count, claim_log, route_idx,
                   directions_log, severity, reply, recommended,
                   mapping_builds, advisor_log>>

-----------------------------------------------------------------------------
(* The GUI of app.py: SimulationApp and its three button handlers           *)

\* load_buildings' static list: b1 at the default centre, b2 and b3 further
\* along; the sites carry no fire fields.
AppBuildings ==
    <<Building(1, 0, "residential", NoFire),
      Building(2, 1, "commercial", NoFire),
      Building(3, 2, "mixed", NoFire)>>

\* agent['target_building'] = self.buildings[i % len(self.buildings)]
RoundRobin(pool, list) ==
    IF list = <<>> THEN pool
    ELSE [i \in 1..Len(pool) |->
            [pool[i] EXCEPT !.target_building = list[((i - 1) % Len(list)) + 1].id]]

\* speed = 12 if agent['type'] == 'truck' else 2.5
AppFallbackSpeed(type) == IF type = "truck" THEN 120 ELSE 25

\* the straight-line route taken when there is no provider route
FallbackLine(start, end, type) ==
    [geometry |-> <<start, end>>,
     distance |-> haversine_distance(start, end),
     duration |-> Div(haversine_distance(start, end), AppFallbackSpeed(type)),
     type |-> "straight_line"]

\* SimulationApp(): nothing loaded; the centre is the geocoder's answer or
\* the default. MAPBOX_TOKEN is the environment's MAPBOX_ACCESS_TOKEN.
InitApp ==
    /\ pc = "gui_idle"
    /\ MAPBOX_ACCESS_TOKEN \in BOOLEAN
    /\ GEMINI_API_KEY = TRUE
    /\ GEMINI_AVAILABLE = TRUE
    /\ center_coords \in {DefaultCenter, GeocodedCenter}
    /\ buildings = <<>>
    /\ agents = <<>>
    /\ optimal_agent_mapping = None
    /\ fire_count = 0
    /\ assigned_count = 0
    /\ claim_log = <<>>
    /\ route_idx = 0
    /\ directions_log = <<>>
    /\ severity = "none"
    /\ reply = NoReply
    /\ recommended = "None"
    /\ mapping_builds = 0
    /\ advisor_log = <<>>

\* no handler runs while another one does
GuiReady == pc \in {"gui_idle", "gui_routed"}

SimLoadBuildings ==
    /\ GuiReady
    /\ buildings' = AppBuildings
    /\ pc' = "gui_idle"
    /\ UNCHANGED <<MAPBOX_ACCESS_TOKEN, GEMINI_API_KEY, GEMINI_AVAILABLE,
                   center_coords, agents, optimal_agent_mapping, fire_count,
                   assigned_count, claim_log, route_idx, directions_log,
                   severity, reply, recommended, mapping_builds, advisor_log>>

\* a new pool (the default 5, 3, 10 scaled down to MaxPerKind of each),
\* given the loaded sites in round-robin
SimInitializeAgents ==
    /\ GuiReady
    /\ agents' = RoundRobin(
                    initialize_agents(center_coords, MaxPerKind, MaxPerKind, MaxPerKind),
                    buildings)
    /\ pc' = "gui_idle"
    /\ UNCHANGED <<MAPBOX_ACCESS_TOKEN, GEMINI_API_KEY, GEMINI_AVAILABLE,
                   center_coords, buildings, optimal_agent_mapping, fire_count,
                   assigned_count, claim_log, route_idx, directions_log,
                   severity, reply, recommended, mapping_builds, advisor_log>>

\* compute_routes up to its loop: it returns at once when there are no agents
\* or no sites; no route is cleared
SimComputeRoutes ==
    /\ GuiReady
    /\ IF agents = <<>> \/ buildings = <<>>
       THEN /\ pc' = "gui_idle"
            /\ UNCHANGED <<route_idx, directions_log>>
       ELSE /\ pc' = "gui_routes"
            /\ route_idx' = 1
            /\ directions_log' = [i \in 1..Len(agents) |-> "pending"]
    /\ UNCHANGED <<MAPBOX_ACCESS_TOKEN, GEMINI_API_KEY, GEMINI_AVAILABLE,
                   center_coords, buildings, agents, optimal_agent_mapping,
                   fire_count, assigned_count, claim_log, severity, reply,
                   recommended, mapping_builds, advisor_log>>

\* compute_routes' loop body for agent route_idx: a raise of the provider call
\* is caught, and every failure ends in the straight-line fallback
SimRouteAgent ==
    /\ pc = "gui_routes"
    /\ LET i == route_idx
           agent == agents[i]
           start == agent.current_coords
       IN  IF agent.target_building = NoBuilding
           THEN /\ agents' = agents
                /\ directions_log' = [directions_log EXCEPT ![i] = "no_target"]
           ELSE IF agent.type = "drone"
           THEN /\ agents' = [agents EXCEPT ![i].route =
                        StraightLine(start, CoordsOf(buildings, agent.target_building))]
                /\ directions_log' = [directions_log EXCEPT ![i] = "not_called"]
           ELSE IF ~MAPBOX_ACCESS_TOKEN
           THEN /\ agents' = [agents EXCEPT ![i].route =
                        FallbackLine(start, CoordsOf(buildings, agent.target_building),
                                     agent.type)]
                /\ directions_log' = [directions_log EXCEPT ![i] = "not_called"]
           ELSE \E outcome \in DirectionsOutcomes :
                /\ directions_log' = [directions_log EXCEPT ![i] = outcome]
                /\ LET end == CoordsOf(buildings, agent.target_building)
                       returned == IF Raises(outcome) THEN {NoRoute}
                                   ELSE get_mapbox_directions(start, end, outcome)
                   IN  \E route \in returned :
                          agents' = [agents EXCEPT ![i].route =
                                        IF route = NoRoute
                                        THEN FallbackLine(start, end, agent.type)
                                        ELSE route]
    /\ route_idx' = route_idx + 1
    /\ pc' = IF route_idx = Len(agents) THEN "gui_routed" ELSE "gui_routes"
    /\ UNCHANGED <<MAPBOX_ACCESS_TOKEN, GEMINI_API_KEY, GEMINI_AVAILABLE,
                   center_coords, buildings, optimal_agent_mapping, fire_count,
                   assigned_count, claim_log, severity, reply, recommended,
                   mapping_builds, advisor_log>>

NextRoutes ==
    \/ ComputeRoutesClear
    \/ RouteAgent
    \/ RUpdate
    \/ RUpdateAgain
    \/ RRecompute
    \/ SimLoadBuildings
    \/ SimInitializeAgents
    \/ SimComputeRoutes
    \/ SimRouteAgent

\* Both callers of the route computation: the harness and the GUI.
SpecRoutes == (InitRoutes \/ InitApp) /\ [][NextRoutes]_vars

-----------------------------------------------------------------------------
(* Properties of the route computation *)

\* C11: update_route_durations_by_speed changes nothing of an agent but the
\* duration of its route (distance, geometry, type, assigned site and the rest
\* stay), and applied to the pool it has left it changes nothing at all.
C11_UpdateIdempotent ==
    [][(pc = "durations" \/ pc = "r_updated") =>
          (/\ Len(agents') = Len(agents)
           /\ \A i \in AgentIdx :
                 agents'[i] = [agents[i] EXCEPT
                                  !.route.duration = agents'[i].route.duration]
           /\ pc = "r_updated" => agents' = agents)]_vars

\* The update has run twice on a pool with a precise route whose duration
\* it changed from the provider's.
C11_Witness ==
    /\ pc = "r_updated_twice"
    /\ \E i \in AgentIdx :
          /\ agents[i].route.type = "precise"
          /\ agents[i].route.distance > 0
          /\ agents[i].route.duration # agents[i].route.distance * TicksPerSecond

\* a route computation has just returned
RoutesComputed == pc \in {"durations", "gui_routed"}

\* C15: when a route computation has returned, an agent without a site has no
\* route, and every route held is one of this computation: it leads from the
\* agent to its site, and it is a provider route exactly when this call's
\* directions request of the agent succeeded.
C15_RoutesOnlyFromThisCall ==
    RoutesComputed =>
        \A i \in AgentIdx :
            /\ ~HoldsSite(i) => agents[i].route = NoRoute
            /\ agents[i].route # NoRoute =>
                  LET start == agents[i].current_coords
                      target == CoordsOf(buildings, agents[i].target_building)
                  IN  /\ agents[i].route.geometry = <<start, target>>
                      /\ agents[i].route.type = "precise" <=> directions_log[i] = "ok"
                      /\ agents[i].route.type = "precise"
                            => agents[i].route \in ProviderRoutes(start, target)
                      /\ agents[i].route.type # "precise"
                            => /\ agents[i].route.type = "straight_line"
                               /\ agents[i].route.distance
                                     = haversine_distance(start, target)

\* compute_routes of main.py has returned on a pool with an agent without a
\* site, an agent whose directions request gave nothing, and an agent with a
\* route.
C15_Witness ==
    /\ pc = "durations"
    /\ \E i \in AgentIdx : ~HoldsSite(i) /\ agents[i].route = NoRoute
    /\ \E i \in AgentIdx :
          /\ HoldsSite(i)
          /\ directions_log[i] = "unavailable"
          /\ agents[i].route = NoRoute
    /\ \E i \in AgentIdx : agents[i].route # NoRoute

\* C17: when a route computation has returned, every drone holding a site has
\* the route of the two points [current, target], of type straight_line, with
\* the great-circle distance and duration = distance / 15, and the directions
\* provider was not called for it.
C17_DroneStraightLine ==
    RoutesComputed =>
        \A i \in AgentIdx :
            (agents[i].type = "drone" /\ HoldsSite(i)) =>
                LET start == agents[i].current_coords
                    target == CoordsOf(buildings, agents[i].target_building)
                IN  /\ agents[i].route.geometry = <<start, target>>
                    /\ agents[i].route.type = "straight_line"
                    /\ agents[i].route.distance = haversine_distance(start, target)
                    /\ agents[i].route.duration * 150
                          = agents[i].route.distance * 10 * TicksPerSecond
                    /\ directions_log[i] = "not_called"

\* The GUI has computed routes with the token set: a drone flies a line of
\* positive length while the provider answered for another agent.
C17_Witness ==
    /\ pc = "gui_routed"
    /\ MAPBOX_ACCESS_TOKEN
    /\ \E i \in AgentIdx :
          /\ agents[i].type = "drone"
          /\ HoldsSite(i)
          /\ agents[i].route.distance > 0
          /\ agents[i].route.duration > 0
    /\ \E i \in AgentIdx : directions_log[i] = "ok"

====
